---- MODULE Spec2Model ----
(***************************************************************************)
(* FileStore (torch/lib/THD/proto/FileStore.cpp): a key/value store kept   *)
(* as a log of length-prefixed records in one shared file.  Every          *)
(* operation opens the file, takes a flock(2) lock, replays the records    *)
(* it has not seen yet into its private cache and then reads or appends.   *)
(*                                                                         *)
(* The file is modelled byte by byte, because the code positions its       *)
(* reads and writes by byte offset.  A std::string is modelled as a        *)
(* record [s, z]: the bytes s followed by z zero bytes (s never ends in a  *)
(* zero byte), so that both strings have one representation each.          *)
(***************************************************************************)
EXTENDS Integers, Sequences, FiniteSets, TLC

\* ------------------------------------------------------------- bounds
\* total number of calls, and of set/add calls among them, in one run of the
\* general specification
MaxCalls == 4
MaxWrites == 2
\* threads of the counter test, and add calls per thread
numThreads == 2
numIterations == 2
\* elapsed time is tracked up to this many milliseconds (it saturates)
MaxElapsed == 1000

\* ------------------------------------------------------------- constants
\* sizeof(uint32_t len) in writeString/readString
LenBytes == 4
\* sleep_for(std::chrono::milliseconds(10)) in get and wait
PollInterval == 10
\* std::chrono::seconds -> milliseconds (duration_cast in wait)
MsPerSecond == 1000
\* Store::kNoTimeout, the "no timeout" sentinel
kNoTimeout == 0

\* ------------------------------------------------------------- bytes
Min(a, b) == IF a < b THEN a ELSE b

Zeros(n) == [x \in 1..n |-> 0]

\* a std::string: bytes s followed by z zero bytes
RECURSIVE Strip(_)
Strip(b) == IF b # <<>> /\ b[Len(b)] = 0 THEN Strip(SubSeq(b, 1, Len(b) - 1)) ELSE b
MkStr(b, pad) == [s |-> Strip(b), z |-> pad + (Len(b) - Len(Strip(b)))]
Str(b) == MkStr(b, 0)
StrSize(str) == Len(str.s) + str.z
StrBytes(str) == str.s \o Zeros(str.z)

\* uint32_t in the byte order of the machine (little endian)
EncodeLen(n) ==
  << n % 256, (n \div 256) % 256, (n \div 65536) % 256, (n \div 16777216) % 256 >>
RECURSIVE DecodeLen(_)
DecodeLen(b) == IF b = <<>> THEN 0 ELSE b[1] + 256 * DecodeLen(Tail(b))
RECURSIVE Pow256(_)
Pow256(n) == IF n = 0 THEN 1 ELSE 256 * Pow256(n - 1)

\* write(fd, ...) at the file cursor: overwrites what is there, extends the file
WriteAt(f, cur, b) ==
  [x \in 1..(IF cur + Len(b) > Len(f) THEN cur + Len(b) ELSE Len(f)) |->
     IF x > cur /\ x <= cur + Len(b) THEN b[x - cur] ELSE f[x]]

\* File::writeString: the length, then the bytes; SYSCHECK never throws here
writeString(f, cur, str) ==
  [file |-> WriteAt(WriteAt(f, cur, EncodeLen(StrSize(str))), cur + LenBytes, StrBytes(str)),
   cur  |-> cur + LenBytes + StrSize(str)]

\* values an uninitialized part of `len` can hold
Uninit == {0, 1}

\* File::readString at file cursor cur: the set of possible [str, cur].
\* read() returns the bytes there are; a short read is no error for read(2),
\* errno stays 0 and SYSASSERT(errno) does not throw.  The bytes of len that a
\* short read did not fill keep their uninitialized value; buf is zero-filled.
readString(f, cur) ==
  LET n    == Min(LenBytes, Len(f) - cur)
      low  == DecodeLen(SubSeq(f, cur + 1, cur + n))
      lens == IF n = LenBytes THEN {low} ELSE {low + u * Pow256(n) : u \in Uninit}
      c1   == cur + n
  IN  { LET m == Min(len, Len(f) - c1)
        IN  [str |-> MkStr(SubSeq(f, c1 + 1, c1 + m), len - m), cur |-> c1 + m]
        : len \in lens }

\* cache_[tmpKey] = tmpValue
Put(c, k, v) == [x \in DOMAIN c \cup {k} |-> IF x = k THEN v ELSE c[x]]

\* the refresh loop: while (size > pos_) { readString; readString; cache_[..] = ..;
\* pos_ = file.tell(); }.  The set of possible [cache, pos].
RECURSIVE Replay(_, _, _, _)
Replay(f, c, p, size) ==
  IF size > p
    THEN UNION { UNION { Replay(f, Put(c, k.str, v.str), v.cur, size)
                         : v \in readString(f, k.cur) }
                 : k \in readString(f, p) }
    ELSE {[cache |-> c, pos |-> p]}
\* ------------------------------------------------------------- integers as text
IsSpace(b) == b \in {9, 10, 11, 12, 13, 32}
IsDigit(b) == b >= 48 /\ b <= 57

RECURSIVE SkipSpace(_)
SkipSpace(b) == IF b # <<>> /\ IsSpace(b[1]) THEN SkipSpace(Tail(b)) ELSE b

\* the value of the leading digits of b, continuing from acc
RECURSIVE Digits(_, _)
Digits(b, acc) ==
  IF b # <<>> /\ IsDigit(b[1]) THEN Digits(Tail(b), 10 * acc + (b[1] - 48)) ELSE acc

\* std::stringstream sin(str); int64_t ti = 0; sin >> ti;
\* white space, an optional sign, digits; 0 when there is no digit
ParseInt(str) ==
  LET b    == SkipSpace(str.s)
      neg  == b # <<>> /\ b[1] = 45
      sign == b # <<>> /\ b[1] \in {43, 45}
      d    == IF sign THEN Tail(b) ELSE b
  IN  IF d # <<>> /\ IsDigit(d[1])
        THEN (IF neg THEN 0 - Digits(d, 0) ELSE Digits(d, 0))
        ELSE 0

\* std::stringstream sout; sout << ti; sout.str()
RECURSIVE NatText(_)
NatText(n) == IF n < 10 THEN <<48 + n>> ELSE NatText(n \div 10) \o <<48 + (n % 10)>>
IntText(n) == IF n < 0 THEN Str(<<45>> \o NatText(0 - n)) ELSE Str(NatText(n))
\* ------------------------------------------------------------- state
\* FileStore objects on one path: Inst run arbitrary operations; the counter
\* test uses objects 1..numThreads for its threads and one more for its last read
Inst == {1, 2}
Threads == 1..numThreads
Reader == numThreads + 1
Slots == Inst \cup Threads \cup {Reader}

\* the inputs of the operations: the keys "a" and "rank_0", the values "x" and
\* "a" (a value may name a key), the key "counter" of the counter test
KeyA == Str(<<97>>)
KeyRank == Str(<<114, 97, 110, 107, 95, 48>>)
Counter == Str(<<99, 111, 117, 110, 116, 101, 114>>)
Keys == {KeyA, KeyRank}
ValX == Str(<<120>>)
ValA == Str(<<97>>)
Values == {ValX, ValA}
Deltas == {1}
KeySets == {{KeyA}, {KeyA, KeyRank}}
Timeouts == {kNoTimeout, 100}
\* how long a sleep_for(PollInterval) takes: at least the interval
SleepTimes == {50 * PollInterval}
AllKeys == Keys \cup {Counter}

VARIABLES
  exists,   \* whether a file exists at path_
  file,     \* the bytes of the file at path_
  lock,     \* lock[i]: the flock(2) lock object i holds: LOCK_UN, LOCK_SH, LOCK_EX
  pc,       \* pc[i]: where object i's current call stands
  op,       \* op[i]: the current call of object i, its arguments, the cursor of its File
  pos_,     \* FileStore::pos_
  cache_,   \* FileStore::cache_
  elapsed,  \* elapsed[i]: steady_clock::now() - start of the wait in progress, in ms
  ret,      \* ret[i]: what the current call returns or throws
  j,        \* j[i]: the loop counter of test thread i
  calls,    \* number of calls made
  writes,   \* number of set/add calls made
  lastw     \* lastw[k]: the last write to key k: which, by whom, what, returned?, after what,
          \* and all the values written to k

vars == <<exists, file, lock, pc, op, pos_, cache_, elapsed, ret, j, calls, writes, lastw>>

NoOp == [name |-> "none", key |-> Str(<<>>), data |-> Str(<<>>), delta |-> 0,
         keys |-> {}, timeout |-> 0, cur |-> 0, snap |-> 0, fresh |-> FALSE]
NoRet == [kind |-> "none", val |-> 0]
NoWrite == [n |-> 0, by |-> 0, kind |-> "none", val |-> Str(<<>>), done |-> FALSE,
            prev |-> "none", all |-> {}]

\* the write to key k that has returned when a call begins and is still the last
\* write to k: its number, or 0 (used to state the claims)
Snap(k) == IF lastw[k].done THEN lastw[k].n ELSE 0

Init ==
  /\ exists \in BOOLEAN
  /\ file = <<>>
  /\ lock = [i \in Slots |-> "LOCK_UN"]
  /\ pc = [i \in Slots |-> "idle"]
  /\ op = [i \in Slots |-> NoOp]
  /\ pos_ = [i \in Slots |-> 0]
  /\ cache_ = [i \in Slots |-> <<>>]
  /\ elapsed = [i \in Slots |-> 0]
  /\ ret = [i \in Slots |-> NoRet]
  /\ j = [i \in Slots |-> 0]
  /\ calls = 0
  /\ writes = 0
  /\ lastw = [k \in AllKeys |-> NoWrite]

\* FileStore::FileStore: a new object on the same path (the old one is destroyed)
Construct(i) ==
  /\ pc[i] = "idle"
  /\ pos_[i] # 0 \/ cache_[i] # <<>>
  /\ pos_' = [pos_ EXCEPT ![i] = 0]
  /\ cache_' = [cache_ EXCEPT ![i] = <<>>]
  /\ UNCHANGED <<exists, file, lock, pc, op, elapsed, ret, j, calls, writes, lastw>>

\* set: File file(path_, O_RDWR | O_CREAT)
CallSet(i, name, data) ==
  /\ pc[i] = "idle"
  /\ op' = [op EXCEPT ![i] = [NoOp EXCEPT !.name = "set", !.key = name, !.data = data]]
  /\ exists' = TRUE
  /\ pc' = [pc EXCEPT ![i] = "lock"]
  /\ calls' = calls + 1
  /\ writes' = writes + 1
  /\ UNCHANGED <<file, lock, pos_, cache_, elapsed, ret, j, lastw>>

\* add: File file(path_, O_RDWR | O_CREAT)
CallAdd(i, key, d) ==
  /\ pc[i] = "idle"
  /\ op' = [op EXCEPT ![i] = [NoOp EXCEPT !.name = "add", !.key = key, !.delta = d]]
  /\ exists' = TRUE
  /\ pc' = [pc EXCEPT ![i] = "lock"]
  /\ calls' = calls + 1
  /\ writes' = writes + 1
  /\ UNCHANGED <<file, lock, pos_, cache_, elapsed, ret, j, lastw>>

\* File::File with O_RDONLY: open(2) fails with ENOENT when there is no file
OpenRead(i) ==
  IF exists
    THEN /\ pc' = [pc EXCEPT ![i] = "lock"]
         /\ ret' = ret
    ELSE /\ pc' = [pc EXCEPT ![i] = "done"]
         /\ ret' = [ret EXCEPT ![i] = [kind |-> "system_error", val |-> 0]]

\* get: the first test of while (cache_.count(key) == 0), then File file(path_, O_RDONLY)
CallGet(i, key) ==
  /\ pc[i] = "idle"
  /\ op' = [op EXCEPT ![i] = [NoOp EXCEPT !.name = "get", !.key = key, !.snap = Snap(key),
                                          !.fresh = (pos_[i] = 0 /\ cache_[i] = <<>>)]]
  /\ IF key \in DOMAIN cache_[i]
       THEN /\ pc' = [pc EXCEPT ![i] = "done"]
            /\ ret' = [ret EXCEPT ![i] = [kind |-> "string", val |-> cache_[i][key]]]
       ELSE OpenRead(i)
  /\ calls' = calls + 1
  /\ UNCHANGED <<exists, file, lock, pos_, cache_, elapsed, j, writes, lastw>>

\* check: File file(path_, O_RDONLY)
CallCheck(i, keys) ==
  /\ pc[i] = "idle"
  /\ op' = [op EXCEPT ![i] = [NoOp EXCEPT !.name = "check", !.keys = keys,
                                !.snap = IF \A k \in keys : Snap(k) # 0 THEN 1 ELSE 0]]
  /\ OpenRead(i)
  /\ calls' = calls + 1
  /\ UNCHANGED <<exists, file, lock, pos_, cache_, elapsed, j, writes, lastw>>

\* wait: start = steady_clock::now(), then the first check(names)
CallWait(i, names, timeout) ==
  /\ pc[i] = "idle"
  /\ op' = [op EXCEPT ![i] = [NoOp EXCEPT !.name = "wait", !.keys = names,
                                !.timeout = timeout,
                                !.snap = IF \A k \in names : Snap(k) # 0 THEN 1 ELSE 0]]
  /\ elapsed' = [elapsed EXCEPT ![i] = 0]
  /\ OpenRead(i)
  /\ calls' = calls + 1
  /\ UNCHANGED <<exists, file, lock, pos_, cache_, j, writes, lastw>>

\* (mutant) every operation asks for the shared lock
OperationShared(i) == "LOCK_SH"

\* the lock each operation asks for: lockExclusive() in set and add, lockShared()
\* in get and check
Operation(i) == IF op[i].name \in {"set", "add"} THEN "LOCK_EX" ELSE "LOCK_SH"

\* (mutant) flock(2) grants every request at once
GrantedAlways(i, operation) == TRUE

\* flock(2) grants LOCK_EX when nobody else holds a lock, LOCK_SH when nobody
\* else holds LOCK_EX
Granted(i, operation) ==
  IF operation = "LOCK_EX"
    THEN \A x \in Slots \ {i} : lock[x] = "LOCK_UN"
    ELSE \A x \in Slots \ {i} : lock[x] # "LOCK_EX"

\* Lock::Lock -> Lock::flock(operation): blocks until the lock is granted
AcquireLock(i) ==
  /\ pc[i] = "lock"
  /\ Granted(i, Operation(i))
  /\ lock' = [lock EXCEPT ![i] = Operation(i)]
  /\ pc' = [pc EXCEPT ![i] = "locked"]
  /\ UNCHANGED <<exists, file, op, pos_, cache_, elapsed, ret, j, calls, writes, lastw>>

\* time passes for the wait calls in progress
Advance(d) ==
  [x \in Slots |-> IF op[x].name = "wait" /\ pc[x] # "done"
                     THEN Min(elapsed[x] + d, MaxElapsed) ELSE elapsed[x]]

\* a write of (key, value) to the log by object i
Written(i, key, value) ==
  [lastw EXCEPT ![key] = [n |-> @.n + 1, by |-> i, kind |-> op[i].name,
                          val |-> value, done |-> FALSE, prev |-> @.kind,
                          all |-> @.all \cup {value}]]

\* (mutant) set writes where the new File's cursor is, at offset 0
SeekStart(i) ==
  /\ pc[i] = "locked"
  /\ op[i].name = "set"
  /\ op' = [op EXCEPT ![i].cur = 0]
  /\ pc' = [pc EXCEPT ![i] = "write"]
  /\ UNCHANGED <<exists, file, lock, pos_, cache_, elapsed, ret, j, calls, writes, lastw>>

\* set under the lock: file.seek(0, SEEK_END)
SeekEnd(i) ==
  /\ pc[i] = "locked"
  /\ op[i].name = "set"
  /\ op' = [op EXCEPT ![i].cur = Len(file)]
  /\ pc' = [pc EXCEPT ![i] = "write"]
  /\ UNCHANGED <<exists, file, lock, pos_, cache_, elapsed, ret, j, calls, writes, lastw>>

\* set: file.writeString(name); file.writeString(data) at the file cursor
WriteSet(i) ==
  /\ pc[i] = "write"
  /\ op[i].name = "set"
  /\ LET w1 == writeString(file, op[i].cur, op[i].key)
         w2 == writeString(w1.file, w1.cur, op[i].data)
     IN  /\ file' = w2.file
         /\ op' = [op EXCEPT ![i].cur = w2.cur]
  /\ lastw' = Written(i, op[i].key, op[i].data)
  /\ pc' = [pc EXCEPT ![i] = "unlock"]
  /\ UNCHANGED <<exists, lock, pos_, cache_, elapsed, ret, j, calls, writes>>

\* (mutant) the cursor stays where size() left it
AddCursorStart(size, pos, refreshed) == 0

\* add: where the file cursor is when the new record is written.  The file was
\* just opened (cursor 0) and size() restores the cursor; only the refresh
\* (seek(pos_) and the reads up to size) moves it.
AddCursor(size, pos, refreshed) == IF size > pos THEN refreshed ELSE 0

\* add: std::stringstream sin(cache_[key]); operator[] inserts "" for a missing key
Lookup(c, key) == IF key \in DOMAIN c THEN c ELSE Put(c, key, Str(<<>>))

\* add under the lock: refresh when size > pos_, then parse cache_[key], add
BodyAdd(i) ==
  /\ pc[i] = "locked"
  /\ op[i].name = "add"
  /\ LET size == Len(file)
     IN  \E o \in (IF size > pos_[i] THEN Replay(file, cache_[i], pos_[i], size)
                                     ELSE {[cache |-> cache_[i], pos |-> pos_[i]]}) :
           LET c  == Lookup(o.cache, op[i].key)
               ti == ParseInt(c[op[i].key]) + op[i].delta
           IN  /\ cache_' = [cache_ EXCEPT ![i] = c]
               /\ pos_' = [pos_ EXCEPT ![i] = o.pos]
               /\ ret' = [ret EXCEPT ![i] = [kind |-> "int64_t", val |-> ti]]
               /\ op' = [op EXCEPT ![i].cur = AddCursor(size, pos_[i], o.pos)]
  /\ pc' = [pc EXCEPT ![i] = "write"]
  /\ UNCHANGED <<exists, file, lock, elapsed, j, calls, writes, lastw>>

\* add: file.writeString(key); file.writeString(sout.str()) at the file cursor
WriteAdd(i) ==
  /\ pc[i] = "write"
  /\ op[i].name = "add"
  /\ LET w1 == writeString(file, op[i].cur, op[i].key)
         w2 == writeString(w1.file, w1.cur, IntText(ret[i].val))
     IN  /\ file' = w2.file
         /\ op' = [op EXCEPT ![i].cur = w2.cur]
  /\ lastw' = Written(i, op[i].key, IntText(ret[i].val))
  /\ pc' = [pc EXCEPT ![i] = "unlock"]
  /\ UNCHANGED <<exists, lock, pos_, cache_, elapsed, ret, j, calls, writes>>

\* get under the lock: size == pos_ -> sleep; else seek(pos_) and refresh
BodyGet(i) ==
  /\ pc[i] = "locked"
  /\ op[i].name = "get"
  /\ LET size == Len(file)
     IN  IF size = pos_[i]
           THEN /\ pc' = [pc EXCEPT ![i] = "sleep"]
                /\ UNCHANGED <<pos_, cache_>>
           ELSE /\ \E o \in Replay(file, cache_[i], pos_[i], size) :
                     /\ cache_' = [cache_ EXCEPT ![i] = o.cache]
                     /\ pos_' = [pos_ EXCEPT ![i] = o.pos]
                /\ pc' = [pc EXCEPT ![i] = "unlock"]
  /\ UNCHANGED <<exists, file, lock, op, elapsed, ret, j, calls, writes, lastw>>

\* get: sleep_for(10ms) inside the scope of file and lock, then continue
Sleep(i) ==
  /\ pc[i] = "sleep"
  /\ \E d \in SleepTimes : elapsed' = Advance(d)
  /\ pc' = [pc EXCEPT ![i] = "unlock"]
  /\ UNCHANGED <<exists, file, lock, op, pos_, cache_, ret, j, calls, writes, lastw>>

\* check under the lock (also as called by wait): refresh when size != pos_,
\* then whether every key is in cache_
BodyCheck(i) ==
  /\ pc[i] = "locked"
  /\ op[i].name \in {"check", "wait"}
  /\ LET size == Len(file)
     IN  \E o \in (IF size # pos_[i] THEN Replay(file, cache_[i], pos_[i], size)
                                     ELSE {[cache |-> cache_[i], pos |-> pos_[i]]}) :
           /\ cache_' = [cache_ EXCEPT ![i] = o.cache]
           /\ pos_' = [pos_ EXCEPT ![i] = o.pos]
           /\ ret' = [ret EXCEPT ![i] =
                        [kind |-> "bool", val |-> (\A k \in op[i].keys : k \in DOMAIN o.cache)]]
  /\ pc' = [pc EXCEPT ![i] = "unlock"]
  /\ UNCHANGED <<exists, file, lock, op, elapsed, j, calls, writes, lastw>>

\* (mutant) ~Lock leaves the lock in place
KeptLock(i) == lock

\* Lock::~Lock: flock(LOCK_UN)
Released(i) == [lock EXCEPT ![i] = "LOCK_UN"]

\* (mutant) set, add and check return with the lock still held
UnlockKeeps(i) ==
  /\ pc[i] = "unlock"
  /\ op[i].name \in {"set", "add", "check"}
  /\ pc' = [pc EXCEPT ![i] = "done"]
  /\ ret' = [ret EXCEPT ![i] = IF op[i].name = "set" THEN [kind |-> "void", val |-> 0] ELSE @]
  /\ UNCHANGED <<exists, file, lock, op, pos_, cache_, elapsed, j, calls, writes, lastw>>

\* set, add, check: the scope ends, ~Lock and ~File run, the call returns
Unlock(i) ==
  /\ pc[i] = "unlock"
  /\ op[i].name \in {"set", "add", "check"}
  /\ lock' = Released(i)
  /\ pc' = [pc EXCEPT ![i] = "done"]
  /\ ret' = [ret EXCEPT ![i] = IF op[i].name = "set" THEN [kind |-> "void", val |-> 0] ELSE @]
  /\ lastw' = IF op[i].name = "check" THEN lastw
              ELSE [lastw EXCEPT ![op[i].key] =
                      IF @.by = i /\ ~@.done THEN [@ EXCEPT !.done = TRUE] ELSE @]
  /\ UNCHANGED <<exists, file, op, pos_, cache_, elapsed, j, calls, writes>>

\* get: the loop body ends (~Lock, ~File), then while (cache_.count(key) == 0):
\* return cache_[key], or open the file again
GetLoop(i) ==
  /\ pc[i] = "unlock"
  /\ op[i].name = "get"
  /\ lock' = Released(i)
  /\ IF op[i].key \in DOMAIN cache_[i]
       THEN /\ pc' = [pc EXCEPT ![i] = "done"]
            /\ ret' = [ret EXCEPT ![i] = [kind |-> "string", val |-> cache_[i][op[i].key]]]
       ELSE /\ pc' = [pc EXCEPT ![i] = "lock"]
            /\ ret' = ret
  /\ UNCHANGED <<exists, file, op, pos_, cache_, elapsed, j, calls, writes, lastw>>

\* wait: elapsed = duration_cast<seconds>(now - start); elapsed > timeout compares
\* whole seconds with the timeout in milliseconds
TimedOut(ms, timeout) ==
  timeout # kNoTimeout /\ (ms \div MsPerSecond) * MsPerSecond > timeout

\* wait: check(names) has returned (~Lock, ~File): return, throw or go to sleep
WaitLoop(i) ==
  /\ pc[i] = "unlock"
  /\ op[i].name = "wait"
  /\ lock' = Released(i)
  /\ IF ret[i].val
       THEN /\ pc' = [pc EXCEPT ![i] = "done"]
            /\ ret' = [ret EXCEPT ![i] = [kind |-> "void", val |-> 0]]
       ELSE IF TimedOut(elapsed[i], op[i].timeout)
         THEN /\ pc' = [pc EXCEPT ![i] = "done"]
              /\ ret' = [ret EXCEPT ![i] = [kind |-> "runtime_error", val |-> 0]]
         ELSE /\ pc' = [pc EXCEPT ![i] = "wsleep"]
              /\ ret' = [ret EXCEPT ![i] = NoRet]
  /\ UNCHANGED <<exists, file, op, pos_, cache_, elapsed, j, calls, writes, lastw>>

\* wait: sleep_for(10ms), then the next check(names) opens the file
WaitSleep(i) ==
  /\ pc[i] = "wsleep"
  /\ \E d \in SleepTimes : elapsed' = Advance(d)
  /\ pc' = [pc EXCEPT ![i] = "lock"]
  /\ UNCHANGED <<exists, file, lock, op, pos_, cache_, ret, j, calls, writes, lastw>>

\* the call has returned or thrown: the caller goes on, with loop counter jn
ReturnTo(i, jn) ==
  /\ pc[i] = "done"
  /\ pc' = [pc EXCEPT ![i] = "idle"]
  /\ op' = [op EXCEPT ![i] = NoOp]
  /\ ret' = [ret EXCEPT ![i] = NoRet]
  /\ elapsed' = [elapsed EXCEPT ![i] = 0]
  /\ j' = jn
  /\ UNCHANGED <<exists, file, lock, pos_, cache_, calls, writes, lastw>>

Return(i) == ReturnTo(i, j)

\* ------------------------------------------------------------- specification
Next ==
  \E i \in Inst :
    \/ Construct(i)
    \/ \E k \in Keys, v \in Values :
         calls < MaxCalls /\ writes < MaxWrites /\ CallSet(i, k, v)
    \/ \E k \in Keys, d \in Deltas :
         calls < MaxCalls /\ writes < MaxWrites /\ CallAdd(i, k, d)
    \/ \E k \in Keys : calls < MaxCalls /\ CallGet(i, k)
    \/ \E ks \in KeySets : calls < MaxCalls /\ CallCheck(i, ks)
    \/ \E ks \in KeySets, t \in Timeouts : calls < MaxCalls /\ CallWait(i, ks, t)
    \/ AcquireLock(i)
    \/ SeekEnd(i)
    \/ WriteSet(i)
    \/ BodyAdd(i)
    \/ WriteAdd(i)
    \/ BodyGet(i)
    \/ Sleep(i)
    \/ BodyCheck(i)
    \/ Unlock(i)
    \/ GetLoop(i)
    \/ WaitLoop(i)
    \/ WaitSleep(i)
    \/ Return(i)

Spec == Init /\ [][Next]_vars

\* ------------------------------------------------------------- the counter test
\* FileStoreTest.cpp, "Hammer on FileStore#add": the file exists or not, and
\* holds nothing or the records of earlier tests
InitHammer ==
  /\ file \in {<<>>, writeString(writeString(<<>>, 0, KeyA).file, 5, ValX).file}
  /\ exists \in {e \in BOOLEAN : file # <<>> => e}
  /\ lock = [i \in Slots |-> "LOCK_UN"]
  /\ pc = [i \in Slots |-> "idle"]
  /\ op = [i \in Slots |-> NoOp]
  /\ pos_ = [i \in Slots |-> 0]
  /\ cache_ = [i \in Slots |-> <<>>]
  /\ elapsed = [i \in Slots |-> 0]
  /\ ret = [i \in Slots |-> NoRet]
  /\ j = [i \in Slots |-> 0]
  /\ calls = 0
  /\ writes = 0
  /\ lastw = [k \in AllKeys |-> NoWrite]

\* for (j = 0; j < numIterations; j++) store.add("counter", 1)
ThreadAdd(i) == j[i] < numIterations /\ CallAdd(i, Counter, 1)
ThreadNext(i) == ReturnTo(i, [j EXCEPT ![i] = @ + 1])

\* thread.join() for every thread, then check(store, "counter", ...) on a new object
Joined == \A i \in Threads : j[i] = numIterations /\ pc[i] = "idle"
MainGet == Joined /\ CallGet(Reader, Counter)

NextHammer ==
  \/ \E i \in Threads :
       \/ ThreadAdd(i)
       \/ ThreadNext(i)
  \/ MainGet
  \/ \E i \in Threads \cup {Reader} :
       \/ AcquireLock(i)
       \/ BodyAdd(i)
       \/ WriteAdd(i)
       \/ BodyGet(i)
       \/ Unlock(i)
       \/ GetLoop(i)

SpecHammer == InitHammer /\ [][NextHammer]_vars

\* C1: when the final get("counter") of the counter test has returned, it has
\* returned the decimal text of numThreads * numIterations
HammerTotal ==
  pc[Reader] = "done" =>
    ret[Reader] = [kind |-> "string", val |-> IntText(numThreads * numIterations)]

\* the final get has returned, after every thread made all its add calls
HammerDone ==
  /\ pc[Reader] = "done"
  /\ ret[Reader].kind = "string"
  /\ lastw[Counter].n = numThreads * numIterations

\* ------------------------------------------------------------- the log
\* The records of the log, as the file format defines them: from offset 0, each
\* a key and a value, each a 4-byte length and that many bytes.  Bytes at the
\* end that are not a whole record are not a record.
HasString(f, cur) ==
  /\ cur + LenBytes <= Len(f)
  /\ cur + LenBytes + DecodeLen(SubSeq(f, cur + 1, cur + LenBytes)) <= Len(f)
StringAt(f, cur) ==
  Str(SubSeq(f, cur + LenBytes + 1,
             cur + LenBytes + DecodeLen(SubSeq(f, cur + 1, cur + LenBytes))))
EndOfString(f, cur) == cur + LenBytes + DecodeLen(SubSeq(f, cur + 1, cur + LenBytes))
HasRecord(f, cur) == HasString(f, cur) /\ HasString(f, EndOfString(f, cur))
EndOfRecord(f, cur) == EndOfString(f, EndOfString(f, cur))

RECURSIVE Records(_, _)
Records(f, cur) ==
  IF HasRecord(f, cur)
    THEN << <<StringAt(f, cur), StringAt(f, EndOfString(f, cur))>> >>
           \o Records(f, EndOfRecord(f, cur))
    ELSE <<>>
Log == Records(file, 0)

\* whether the log has a record for key k, and the value of the last one
HasKey(log, k) == \E x \in 1..Len(log) : log[x][1] = k
LastValue(log, k) ==
  log[CHOOSE x \in 1..Len(log) :
        log[x][1] = k /\ \A y \in (x + 1)..Len(log) : log[y][1] # k][2]
\* the integer value of key k in the log: 0 if the key was never written
IntValue(log, k) == IF HasKey(log, k) THEN ParseInt(LastValue(log, k)) ELSE 0

IsPrefix(a, b) == Len(a) <= Len(b) /\ SubSeq(b, 1, Len(a)) = a

\* C2: every add(key, delta), at the step that writes its record under the
\* exclusive lock, returns p + delta for p the integer value of the last record
\* for key in the log, and makes (key, text(p + delta)) the new last record
AddStep(i) == pc[i] = "write" /\ op[i].name = "add" /\ pc'[i] = "unlock"
AddAppendsSum ==
  [][\A i \in Slots :
       AddStep(i) =>
         /\ ret[i].val = IntValue(Log, op[i].key) + op[i].delta
         /\ Records(file', 0) = Append(Log, <<op[i].key, IntText(ret[i].val)>>)]_vars

\* C3: every step leaves the bytes of the file in place: the old content is a
\* prefix of the new content
AppendOnly == [][IsPrefix(file, file')]_vars

\* a get(k) by object i has returned a string
GetReturned(i) == pc[i] = "done" /\ op[i].name = "get" /\ ret[i].kind = "string"

\* C4: when get(k) returns on the object whose set(k, v) is the last write to k,
\* it returns v
ReadYourWrites ==
  \A i \in Slots :
    (GetReturned(i) /\ lastw[op[i].key].by = i /\ lastw[op[i].key].kind = "set")
      => ret[i].val = lastw[op[i].key].val

\* C5: when set(k, v1) and then set(k, v2) have returned and a get(k) that began
\* after that returns with set(k, v2) still the last write to k, it returns v2
LastWriteWins ==
  \A i \in Slots :
    (/\ GetReturned(i)
     /\ op[i].snap # 0
     /\ lastw[op[i].key].n = op[i].snap
     /\ lastw[op[i].key].kind = "set"
     /\ lastw[op[i].key].prev = "set")
      => ret[i].val = lastw[op[i].key].val

\* C6: a get(k) that began on a new object (pos_ = 0, empty cache_) returns the
\* value of the last record for k in the log it has read under its lock
FreshGetFound(i) ==
  /\ pc[i] = "unlock"
  /\ op[i].name = "get"
  /\ op[i].fresh
  /\ op[i].key \in DOMAIN cache_[i]
FreshGetReadsLog ==
  \A i \in Slots :
    FreshGetFound(i) =>
      /\ HasKey(Log, op[i].key)
      /\ cache_[i][op[i].key] = LastValue(Log, op[i].key)

\* C7: every check(keys) returns a boolean: false while some key of keys has
\* never been written, true when it began after a write to each key had returned
CheckAnswers ==
  \A i \in Slots :
    (pc[i] = "done" /\ op[i].name = "check") =>
      /\ ret[i].kind = "bool"
      /\ (\E k \in op[i].keys : lastw[k].n = 0) => ret[i].val = FALSE
      /\ op[i].snap = 1 => ret[i].val = TRUE

\* C8: a wait throws "Wait timeout" only with a finite timeout that has elapsed,
\* and it does not go to sleep again once check is false and the time since the
\* call began exceeds a finite timeout
Expired(i) == op[i].timeout # kNoTimeout /\ elapsed[i] > op[i].timeout
WaitTimesOut ==
  \A i \in Slots :
    op[i].name = "wait" =>
      /\ (pc[i] = "done" /\ ret[i].kind = "runtime_error") => Expired(i)
      /\ pc[i] = "wsleep" => ~Expired(i)

\* C10: a get, check or add whose refresh reads a file that ends in the middle
\* of a record fails with an error
RECURSIVE EndOfRecords(_, _)
EndOfRecords(f, cur) == IF HasRecord(f, cur) THEN EndOfRecords(f, EndOfRecord(f, cur)) ELSE cur
EndsMidRecord(f) == EndOfRecords(f, 0) # Len(f)
Refreshes(i) == pc[i] = "locked" /\ op[i].name \in {"get", "check", "add"} /\ pos_'[i] # pos_[i]
MidRecordFails ==
  [][\A i \in Slots :
       (Refreshes(i) /\ EndsMidRecord(file)) =>
         (pc'[i] = "done" /\ ret'[i].kind = "system_error")]_vars

\* ------------------------------------------------------------- wait and set
\* Object 1 waits while object 2 sets keys.  Every call that has begun goes on
\* (weak fairness of its steps), and a lock request that could be granted again
\* and again is granted (strong fairness of AcquireLock).
Waiter == 1
Setter == 2
StepWait(i) ==
  \/ SeekEnd(i)
  \/ WriteSet(i)
  \/ BodyCheck(i)
  \/ Unlock(i)
  \/ WaitLoop(i)
  \/ WaitSleep(i)
  \/ Return(i)
NextWait ==
  \/ \E ks \in KeySets, t \in Timeouts : calls < MaxCalls /\ CallWait(Waiter, ks, t)
  \/ \E k \in Keys, v \in Values :
       calls < MaxCalls /\ writes < MaxWrites /\ CallSet(Setter, k, v)
  \/ \E i \in {Waiter, Setter} : AcquireLock(i)
  \/ \E i \in {Waiter, Setter} : StepWait(i)

SpecWait ==
  /\ Init
  /\ [][NextWait]_vars
  /\ \A i \in {Waiter, Setter} : WF_vars(StepWait(i)) /\ SF_vars(AcquireLock(i))

\* C9: a wait that began before its keys were all set, and for whose keys a set
\* has returned while its deadline has not passed, returns without error
WaitBegunEarly(i) == op[i].name = "wait" /\ op[i].snap = 0
KeysSet(i) == \A k \in op[i].keys : lastw[k].kind = "set" /\ lastw[k].done
InTime(i) == op[i].timeout = kNoTimeout \/ elapsed[i] <= op[i].timeout
WaitReturned(i) == pc[i] = "done" /\ op[i].name = "wait" /\ ret[i].kind = "void"
WaitReturns ==
  (WaitBegunEarly(Waiter) /\ KeysSet(Waiter) /\ InTime(Waiter)) ~> WaitReturned(Waiter)

\* ------------------------------------------------------------- locks
\* C11: at most one object holds the exclusive lock, and then no other object
\* holds any lock; a step changes the file only as the step of a set or add
\* whose object holds the exclusive lock; get, check and wait hold at most the
\* shared lock
Excluded == \A a, b \in Slots : (a # b /\ lock[a] = "LOCK_EX") => lock[b] = "LOCK_UN"
ReadersShare == \A i \in Slots : op[i].name \in {"get", "check", "wait"} => lock[i] # "LOCK_EX"
WriterStep(i) ==
  /\ op[i].name \in {"set", "add"}
  /\ lock[i] = "LOCK_EX"
  /\ pc[i] = "write"
  /\ pc'[i] = "unlock"
LockDiscipline ==
  /\ [](Excluded /\ ReadersShare)
  /\ [][file' # file => \E i \in Slots : WriterStep(i)]_vars

\* a set or add has written its record under the exclusive lock while a get,
\* check or wait of another object waits for the shared lock
WriterExcludes ==
  \E a, b \in Slots :
    /\ a # b
    /\ lock[a] = "LOCK_EX" /\ pc[a] = "unlock" /\ file # <<>>
    /\ pc[b] = "lock" /\ op[b].name \in {"get", "check", "wait"}

\* C12: an object whose call has returned or thrown, or that is between calls,
\* holds no lock
NoLockOutlives == \A i \in Slots : pc[i] \in {"done", "idle"} => lock[i] = "LOCK_UN"

\* a wait that held the shared lock for its checks has thrown "Wait timeout",
\* while a set or add that held the exclusive lock has returned
LocksGivenBack ==
  \E a, b \in Slots :
    /\ pc[a] = "done" /\ op[a].name = "wait" /\ ret[a].kind = "runtime_error"
    /\ pc[b] = "done" /\ op[b].name \in {"set", "add"}

\* ------------------------------------------------------------- cursor and cache
\* the offsets in f at which a record can begin or the last whole record ends
RECURSIVE Boundaries(_, _)
Boundaries(f, cur) ==
  {cur} \cup (IF HasRecord(f, cur) THEN Boundaries(f, EndOfRecord(f, cur)) ELSE {})

\* C13: pos_ of every object is the offset of a record boundary of the file and
\* is at most the size of the file, and no step of an object's calls makes its
\* pos_ smaller
SameObject(i) == ~(pc[i] = "idle" /\ pc'[i] = "idle")
ReadCursor ==
  /\ [](\A i \in Slots : pos_[i] \in Boundaries(file, 0) /\ pos_[i] <= Len(file))
  /\ [][\A i \in Slots : SameObject(i) => pos_'[i] >= pos_[i]]_vars

\* C14: between its calls, the cache_ of every object holds exactly the keys of
\* the records in the first pos_ bytes of the file, each with the value of the
\* last such record
Prefix(i) == Records(SubSeq(file, 1, pos_[i]), 0)
BetweenCalls(i) == pc[i] \in {"idle", "done"}
CacheIsPrefix ==
  \A i \in Slots :
    BetweenCalls(i) =>
      /\ DOMAIN cache_[i] = {Prefix(i)[x][1] : x \in 1..Len(Prefix(i))}
      /\ \A k \in DOMAIN cache_[i] : cache_[i][k] = LastValue(Prefix(i), k)

\* C15: no get is in its sleep interval holding the shared lock while a set or
\* add of another object waits for the exclusive lock
SleepsUnlocked ==
  \A i, w \in Slots :
    (pc[i] = "sleep" /\ op[i].name = "get" /\ pc[w] = "lock" /\ op[w].name \in {"set", "add"})
      => lock[i] = "LOCK_UN"

\* ------------------------------------------------------------- get and set
\* Objects 1 and 2 call get while object 3 calls set.  Every call that has begun
\* goes on (weak fairness of its steps), and a lock request that could be
\* granted again and again is granted (strong fairness of AcquireLock).
Pollers == Inst
Writer == 3
StepGet(i) ==
  \/ BodyGet(i)
  \/ Sleep(i)
  \/ GetLoop(i)
  \/ SeekEnd(i)
  \/ WriteSet(i)
  \/ Unlock(i)
  \/ Return(i)
NextGet ==
  \/ \E i \in Pollers, k \in Keys : calls < MaxCalls /\ CallGet(i, k)
  \/ \E k \in Keys, v \in Values :
       calls < MaxCalls /\ writes < MaxWrites /\ CallSet(Writer, k, v)
  \/ \E i \in Pollers \cup {Writer} : AcquireLock(i)
  \/ \E i \in Pollers \cup {Writer} : StepGet(i)

SpecGet ==
  /\ Init
  /\ [][NextGet]_vars
  /\ \A i \in Pollers \cup {Writer} : WF_vars(StepGet(i)) /\ SF_vars(AcquireLock(i))

\* C16: a get(k) that is polling for k when another object has called set(k, v)
\* returns, and pos_ of the polling objects never gets smaller
Polling(i) == op[i].name = "get" /\ pc[i] \in {"lock", "locked", "sleep", "unlock"}
SetCalled(k) == op[Writer].name = "set" /\ op[Writer].key = k /\ pc[Writer] # "done"
GetReturns ==
  /\ \A i \in Pollers, k \in Keys :
       (Polling(i) /\ op[i].key = k /\ SetCalled(k)) ~> GetReturned(i)
  /\ [][\A i \in Pollers : pos_'[i] >= pos_[i]]_vars

\* ------------------------------------------------------------- frame of set
\* the bytes of one record (key, value) in the file format
RecordBytes(key, value) ==
  EncodeLen(StrSize(key)) \o StrBytes(key) \o EncodeLen(StrSize(value)) \o StrBytes(value)

\* C17: every step of a set(key, value) call leaves pos_ and cache_ of every
\* object as they are; its write step appends the bytes of the one record
\* (key, value) to the end of the file, and its other steps leave the file as
\* it is
SetStep(i) == op'[i].name = "set" /\ pc'[i] # pc[i]
SetFrame ==
  [][\A i \in Slots :
       SetStep(i) =>
         /\ pos_' = pos_
         /\ cache_' = cache_
         /\ file' = IF pc[i] = "write"
                       THEN file \o RecordBytes(op[i].key, op[i].data)
                       ELSE file]_vars

\* a set has written its record behind an earlier record, while the calling
\* object and another object have read the file before
SetAppended ==
  \E i, x \in Slots :
    /\ i # x
    /\ op[i].name = "set" /\ pc[i] = "done"
    /\ Len(file) > Len(RecordBytes(op[i].key, op[i].data))
    /\ pos_[i] > 0 /\ cache_[i] # <<>>
    /\ pos_[x] > 0 /\ cache_[x] # <<>>

\* ------------------------------------------------------------- values read
\* C18: every value a get(k) returns is a value that some set or add has
\* written for k
NoThinAir ==
  \A i \in Slots : GetReturned(i) => ret[i].val \in lastw[op[i].key].all

\* ------------------------------------------------------------- no deadlock
\* object i has asked for a lock that flock(2) cannot grant now
Waiting(i) == pc[i] = "lock" /\ ~Granted(i, Operation(i))
\* object h is at a step of its call between the grant of its lock and the
\* release (the guards of SeekEnd, BodyAdd, BodyGet, BodyCheck; WriteSet,
\* WriteAdd; Sleep; Unlock, GetLoop, WaitLoop), which it can take
CanStep(h) ==
  \/ pc[h] = "locked" /\ op[h].name \in {"set", "add", "get", "check", "wait"}
  \/ pc[h] = "write" /\ op[h].name \in {"set", "add"}
  \/ pc[h] = "sleep"
  \/ pc[h] = "unlock" /\ op[h].name \in {"set", "add", "get", "check", "wait"}

\* C19: an object that asks for a lock holds none; the objects are never all
\* waiting for a lock; and whenever an object waits for a lock, another object
\* holds a lock and can take the next step of its call towards the release
NoDeadlock ==
  /\ \A i \in Slots : pc[i] = "lock" => lock[i] = "LOCK_UN"
  /\ ~(\A i \in Inst : Waiting(i))
  /\ \A i \in Slots :
       Waiting(i) =>
         \E h \in Slots \ {i} : lock[h] # "LOCK_UN" /\ CanStep(h)

\* a set or add waits for the exclusive lock while a get sleeps with the shared
\* lock
WriterWaits ==
  \E i, h \in Slots :
    /\ Waiting(i) /\ op[i].name \in {"set", "add"}
    /\ pc[h] = "sleep" /\ lock[h] = "LOCK_SH"
====
